---- MODULE Spec2Model ----
(***************************************************************************)
(* Session orchestrator of the voice-therapy client (frontend/src/App.js). *)
(*                                                                         *)
(* The React component is modelled as a state machine: the useState cells  *)
(* and refs are the variables, every event handler / promise continuation  *)
(* / timer callback is one action.  Time is a discrete stream of one-second*)
(* ticks (the period of both setInterval timers); a callback that became   *)
(* due on a tick runs before the next tick, in any order with the other    *)
(* callbacks of that tick, and user or network events interleave freely.   *)
(* Date.now() differences are kept as ages in ticks, which is all the code *)
(* ever reads of them (now - lastCheckIn >= threshold).                    *)
(***************************************************************************)
EXTENDS Integers, Sequences, FiniteSets, TLC

\* ---------------------------------------------------------------- bounds
\* one-second ticks the model gives a minute (the source multiplies by 60)
SecPerMin == 1
\* startSession clicks explored
MaxStarts == 2
\* speech turns explored
MaxTurns == 1
\* speech turns explored where the user speaks again before the reply
MaxTalk == 2
\* selectSound clicks explored
MaxMeds == 1
\* selectSound clicks explored where a sound is selected again
MaxSounds == 2
\* persona navigations and duration adjustments explored
MaxNav == 1
MaxAdjust == 1
\* End clicks explored
MaxEnds == 1
\* self-introduction requests in flight at once
MaxIntros == 2
\* clip buffers held at once that are counted
MaxUrls == 2
\* sessions the panel starts, and messages its channels deliver
MaxPanelStarts == 2
MaxPanelPush == 1

\* ------------------------------------------------------ program constants
VOICE_SELECTION == "voice_selection"
TIMER_SETUP == "timer_setup"
ACTIVE_SESSION == "active_session"
MEDITATION_SELECTION == "meditation_selection"
MEDITATION_ACTIVE == "meditation_active"
APP_STATES ==
  {VOICE_SELECTION, TIMER_SETUP, ACTIVE_SESSION, MEDITATION_SELECTION, MEDITATION_ACTIVE}
ActiveStates == {ACTIVE_SESSION, MEDITATION_SELECTION, MEDITATION_ACTIVE}

NumPersonas == 5
DefaultMinutes == 15
MinMinutes == 5
MaxMinutes == 60
AdjustStep == 5
CheckInMinutes == 5
GreetingDelay == 1
SuggestDelay == 3
SettleDelay == 3
MeditationResponse == 2

\* null of currentSession / selectedSound / lastCheckIn / the refs
NULL == 0
NoCheckIn == -1

\* the sounds and canned replies the explored runs draw
SoundChoices == {1, 2}
ResponseDraws == {0, MeditationResponse}

\* check-in threshold 5 * 60 * 1000 ms, in ticks
CheckInThreshold == CheckInMinutes * SecPerMin
MaxDelay == IF SuggestDelay > SettleDelay THEN SuggestDelay ELSE SettleDelay
\* check-ins the longest session explored can see: one per interval of its
\* duration, one more during the settle delay
MaxCheckIns == (DefaultMinutes + AdjustStep * MaxAdjust) \div CheckInMinutes + 1
\* capacity of the message log: the greeting and its reply, a message and a
\* reply per speech turn, a transition per selected sound, the check-ins,
\* a closing message per press of End and one at expiry
MaxLog == 2 + 2 * (MaxTurns + MaxTalk) + (MaxMeds + MaxSounds) + MaxCheckIns + MaxEnds + 1

TimeoutKinds == {"greet", "suggest", "settle"}

\* the greeting is turn 0, the speech turns are numbered from 1
TurnIds == 0..(IF MaxTalk > MaxTurns THEN MaxTalk ELSE MaxTurns)

\* what the recogniser heard: nothing, speech without a word of stress,
\* speech with one
NoText == 0
PlainText == 1
StressText == 2
Utterances == {PlainText, StressText}
\* the transcript after more speech was heard
Heard(tr, text) == IF tr = StressText \/ text = StressText THEN StressText ELSE text

VARIABLES
  currentState, selectedPersona, sessionMinutes, currentSession, messages,
  remainingTime, selectedSound, musicTracks, isMeditating, lastCheckIn,
  timerRef, wsRef, listening, transcript,
  armed, wsOpen, createReqs, replyReqs, trackReqs, timeouts,
  dueTimers, dueCheckIn,
  starts, turns, meds, navs, adjusts, ends, navTrail, adjTrail,
  postReset, cdTicks, cdEnds, cdDur, cdNow, stayKind, stayTicks, stayCI,
  introReqs, audioSrc, audioCut, urls

\* the panel-based session controller and its breathing exercise
\* (unnamed/part_000): the useState cells of App and of
\* BreathingVisualization, the sockets it created with their readyState,
\* and the requests in flight
VARIABLES
  isSessionActive, isLoading, panelSession, panelMessages, panelWsRef,
  panelListening, breathingActive, breathingPattern, currentTrack,
  panelTracks, panelAudio, sockets, sessionReq, musicReq,
  phase, count,
  panelStarts, pushes, lastSend, logCleared, phaseTicks

setupVars == <<selectedPersona, sessionMinutes, navs, adjusts, navTrail, adjTrail>>
soundVars == <<selectedSound, musicTracks, meds, trackReqs>>
refVars == <<timerRef, wsRef>>
cdVars == <<cdTicks, cdEnds, cdDur, cdNow>>
stayVars == <<stayKind, stayTicks, stayCI>>
audioVars == <<introReqs, audioSrc, audioCut, urls>>
appVars == <<currentState, selectedPersona, sessionMinutes, currentSession, messages,
          remainingTime, selectedSound, musicTracks, isMeditating, lastCheckIn,
          timerRef, wsRef, listening, transcript,
          armed, wsOpen, createReqs, replyReqs, trackReqs, timeouts,
          dueTimers, dueCheckIn,
          starts, turns, meds, navs, adjusts, ends, navTrail, adjTrail,
          postReset, cdTicks, cdEnds, cdDur, cdNow, stayKind, stayTicks, stayCI,
          introReqs, audioSrc, audioCut, urls>>
breathVars == <<phase, count, phaseTicks>>
panelVars == <<isSessionActive, isLoading, panelSession, panelMessages, panelWsRef,
               panelListening, breathingActive, breathingPattern, currentTrack,
               panelTracks, panelAudio, sockets, sessionReq, musicReq,
               phase, count,
               panelStarts, pushes, lastSend, logCleared, phaseTicks>>
vars == <<appVars, panelVars>>

\* ---------------------------------------------------------------- messages
Msg(t, c, a, r) == [type |-> t, content |-> c, arg |-> a, re |-> r]
GreetingMsg == Msg("therapist", "greeting", 0, 0)
UserMsg(n, text) == Msg("user", "transcript", text, n)
ResponseMsg(i, n) == Msg("therapist", "response", i, n)
TransitionMsg(s) == Msg("therapist", "transition", s, 0)
CheckInMsg == Msg("therapist", "checkin", 0, 0)
ClosingMsg == Msg("therapist", "closing", 0, 0)

HasRoom == Len(messages) < MaxLog

\* therapeuticResponse.includes('meditation')
IncludesMeditation(i) == i = MeditationResponse

\* ------------------------------------------------------------------ audio
\* what the hidden audio element of the component is playing
Clip(k, a) == [kind |-> k, arg |-> a]
NoClip == Clip("none", 0)
IntroClip(p) == Clip("intro", p)
PushClip == Clip("push", 0)
ReplyClip(n) == Clip("reply", n)
Personas == 0..(NumPersonas - 1)

\* ---------------------------------------------------------------- timeouts
NoTimeouts == [k \in TimeoutKinds |-> [d \in 0..MaxDelay |-> 0]]
AddTimeout(t, k, d) == [t EXCEPT ![k][d] = @ + 1]
TakeTimeout(t, k) == [t EXCEPT ![k][0] = @ - 1]
AgeTimeouts(t) ==
  [k \in TimeoutKinds |-> [d \in 0..MaxDelay |-> IF d = MaxDelay THEN 0 ELSE t[k][d + 1]]]
Pending(k) == \E d \in 0..MaxDelay : timeouts[k][d] > 0
NothingDue ==
  /\ dueTimers = {}
  /\ ~dueCheckIn
  /\ \A k \in TimeoutKinds : timeouts[k][0] = 0

\* the check-in effect keeps an interval armed exactly while its condition holds
CheckInArmedFor(med, last) == med /\ last # NoCheckIn
CheckInArmed == CheckInArmedFor(isMeditating, lastCheckIn)

\* ----------------------------------------------- panel: constants and Init
\* the sockets the explored runs create, one per successful startSession
SocketIds == 1..MaxPanelStarts
\* WebSocket.readyState; "none" is a socket not created yet
ReadyStates == {"none", "connecting", "open", "closing", "closed"}

\* the patterns table of BreathingVisualization (hold2 of 'box' is never read)
patterns ==
  ("4-4-6" :> [inhale |-> 4, hold |-> 4, exhale |-> 6]) @@
  ("4-7-8" :> [inhale |-> 4, hold |-> 7, exhale |-> 8]) @@
  ("box" :> [inhale |-> 4, hold |-> 4, exhale |-> 4])
BreathingPatterns == DOMAIN patterns

\* the messages the panel appends to its log
PanelMsg(t, c) == [type |-> t, content |-> c]
ConnectedMsg == PanelMsg("system", "Connected to meditation session")
ConnectionErrorMsg == PanelMsg("error", "Connection error")
StartFailedMsg == PanelMsg("error", "Failed to start session")
\* data.type || 'response'
PushedMsg(data) == PanelMsg(IF data.type = "none" THEN "response" ELSE data.type, "pushed")
\* the messages of the channel the explored runs draw: with or without an
\* audio clip, with or without a type
PanelPayloads == [audio : BOOLEAN, type : {"none", "check_in"}]

PanelInit ==
  /\ isSessionActive = FALSE
  /\ isLoading = FALSE
  /\ panelSession = NULL
  /\ panelMessages = <<>>
  /\ panelWsRef = NULL
  /\ panelListening = FALSE
  /\ breathingActive = FALSE
  /\ breathingPattern = "4-4-6"
  /\ currentTrack = NULL
  /\ panelTracks = NULL
  /\ panelAudio = FALSE
  /\ sockets = [i \in SocketIds |-> "none"]
  /\ sessionReq = 0
  /\ musicReq = 0
  /\ phase = "inhale"
  /\ count = 0
  /\ panelStarts = 0
  /\ pushes = 0
  /\ lastSend = "none"
  /\ logCleared = FALSE
  /\ phaseTicks = 0

Init ==
  /\ currentState = VOICE_SELECTION
  /\ selectedPersona = 0
  /\ sessionMinutes = DefaultMinutes
  /\ currentSession = NULL
  /\ messages = <<>>
  /\ remainingTime = 0
  /\ selectedSound = NULL
  /\ musicTracks = NULL
  /\ isMeditating = FALSE
  /\ lastCheckIn = NoCheckIn
  /\ timerRef = NULL
  /\ wsRef = NULL
  /\ listening = FALSE
  /\ transcript = NoText
  /\ armed = {}
  /\ wsOpen = {}
  /\ createReqs = {}
  /\ replyReqs = [n \in TurnIds |-> 0]
  /\ trackReqs = {}
  /\ timeouts = NoTimeouts
  /\ dueTimers = {}
  /\ dueCheckIn = FALSE
  /\ starts = 0
  /\ turns = 0
  /\ meds = 0
  /\ navs = 0
  /\ adjusts = 0
  /\ ends = 0
  /\ navTrail = <<>>
  /\ adjTrail = <<>>
  /\ postReset = FALSE
  /\ cdTicks = 0
  /\ cdEnds = 0
  /\ cdDur = 0
  /\ cdNow = FALSE
  /\ stayKind = "none"
  /\ stayTicks = 0
  /\ stayCI = 0
  /\ introReqs = [p \in Personas |-> 0]
  /\ audioSrc = NoClip
  /\ audioCut = FALSE
  /\ urls = 0
  /\ PanelInit


Min(a, b) == IF a < b THEN a ELSE b
Max(a, b) == IF a > b THEN a ELSE b

\* ------------------------------------------------- transcript-turn effect
\* useEffect on [transcript, currentState]: with a non-empty transcript in
\* ActiveSession it appends the user turn, requests a reply and resets the
\* transcript.  ns, ms, rq are the state, log and requests the handler that
\* triggered the render leaves behind.
TurnFires(ns, tr) == tr # NoText /\ ns = ACTIVE_SESSION

TurnEffect(ns, ms, tr, rq) ==
  /\ TurnFires(ns, tr) => Len(ms) < MaxLog
  /\ messages' = IF TurnFires(ns, tr) THEN Append(ms, UserMsg(turns + 1, tr)) ELSE ms
  /\ replyReqs' = IF TurnFires(ns, tr) THEN [rq EXCEPT ![turns + 1] = @ + 1] ELSE rq
  /\ transcript' = IF TurnFires(ns, tr) THEN NoText ELSE tr
  /\ turns' = IF TurnFires(ns, tr) THEN turns + 1 ELSE turns

\* a tracked stay in MeditationActive ends when the machine leaves the state
LeaveStay == stayKind' = "none" /\ stayTicks' = 0 /\ stayCI' = 0

\* -------------------------------------------------------- setup handlers
\* mutant of NavigateLeft: no wrap at the first persona
NavigateLeft_NoWrap(p) == IF p = 0 THEN 0 ELSE p - 1

NavigateLeft(p) == IF p = 0 THEN NumPersonas - 1 ELSE p - 1
NavigateRight(p) == (p + 1) % NumPersonas

\* the last two navigations: the arrow pressed and the index it was pressed at
NavTrail(trail, direction, p) ==
  IF Len(trail) < 2 THEN Append(trail, [dir |-> direction, from |-> p])
  ELSE <<trail[2], [dir |-> direction, from |-> p]>>

\* speakIntroduction() up to its await: the request names the persona of the
\* render the arrow was pressed in
speakIntroduction(reqs, persona) == [reqs EXCEPT ![persona] = @ + 1]

navigatePersona(direction) ==
  /\ currentState = VOICE_SELECTION
  /\ selectedPersona' = IF direction = "left" THEN NavigateLeft(selectedPersona)
                        ELSE NavigateRight(selectedPersona)
  /\ navs' = Min(navs + 1, MaxNav)
  /\ navTrail' = NavTrail(navTrail, direction, selectedPersona)
  /\ introReqs' = speakIntroduction(introReqs, selectedPersona)
  /\ UNCHANGED <<adjTrail, currentState, sessionMinutes, currentSession, messages, remainingTime,
                 selectedSound, musicTracks, isMeditating, lastCheckIn, timerRef, wsRef,
                 audioSrc, audioCut, urls,
                 listening, transcript, armed, wsOpen, createReqs, replyReqs, trackReqs,
                 timeouts, dueTimers, dueCheckIn, starts, ends, turns, meds, adjusts,
                 postReset, cdVars, stayVars>>
  /\ UNCHANGED panelVars

confirmPersona ==
  /\ currentState = VOICE_SELECTION
  /\ currentState' = TIMER_SETUP
  /\ UNCHANGED <<setupVars, currentSession, messages, remainingTime,
                 selectedSound, musicTracks, isMeditating, lastCheckIn, timerRef, wsRef, audioVars,
                 listening, transcript, armed, wsOpen, createReqs, replyReqs, trackReqs,
                 timeouts, dueTimers, dueCheckIn, starts, ends, turns, meds,
                 postReset, cdVars, stayVars>>
  /\ UNCHANGED panelVars

\* mutant of Clamp: no lower limit
Clamp_NoFloor(v) == Min(MaxMinutes, v)

Clamp(v) == Max(MinMinutes, Min(MaxMinutes, v))

\* the last adjustment: the change pressed, the minutes it was pressed at, and
\* the minutes at which a change leading out of the range was pressed so far
AdjTrail(trail, change, m) ==
  <<[change |-> change, from |-> m,
     held |-> (IF trail = <<>> THEN {} ELSE trail[1].held) \cup
              (IF m + change \in MinMinutes..MaxMinutes THEN {} ELSE {m})]>>

adjustTimer(change) ==
  /\ currentState = TIMER_SETUP
  /\ sessionMinutes' = Clamp(sessionMinutes + change)
  /\ adjusts' = Min(adjusts + 1, MaxAdjust)
  /\ adjTrail' = AdjTrail(adjTrail, change, sessionMinutes)
  /\ UNCHANGED <<navTrail, currentState, selectedPersona, currentSession, messages, remainingTime,
                 selectedSound, musicTracks, isMeditating, lastCheckIn, timerRef, wsRef, audioVars,
                 listening, transcript, armed, wsOpen, createReqs, replyReqs, trackReqs,
                 timeouts, dueTimers, dueCheckIn, starts, ends, turns, meds, navs,
                 postReset, cdVars, stayVars>>
  /\ UNCHANGED panelVars

\* ----------------------------------------------------------- startSession
\* mutant of startSession: the channel is opened with the click
startSession_OpensEarly ==
  /\ currentState = TIMER_SETUP
  /\ starts < MaxStarts
  /\ createReqs' = createReqs \cup {[id |-> starts + 1, minutes |-> sessionMinutes]}
  /\ starts' = starts + 1
  /\ postReset' = FALSE
  /\ wsOpen' = wsOpen \cup {starts + 1}
  /\ UNCHANGED <<ends, currentState, setupVars, currentSession, messages, remainingTime,
                 soundVars, isMeditating, lastCheckIn, refVars, audioVars,
                 listening, transcript, armed, replyReqs,
                 timeouts, dueTimers, dueCheckIn, turns,
                 cdVars, stayVars>>
  /\ UNCHANGED panelVars

\* the click: the request is sent with the minutes of the render it was
\* clicked in; everything else is in the continuation
startSession ==
  /\ currentState = TIMER_SETUP
  /\ starts < MaxStarts
  /\ createReqs' = createReqs \cup {[id |-> starts + 1, minutes |-> sessionMinutes]}
  /\ starts' = starts + 1
  /\ postReset' = FALSE
  /\ UNCHANGED <<ends, currentState, setupVars, currentSession, messages, remainingTime,
                 soundVars, isMeditating, lastCheckIn, refVars, audioVars,
                 listening, transcript, armed, wsOpen, replyReqs,
                 timeouts, dueTimers, dueCheckIn, turns,
                 cdVars, stayVars>>
  /\ UNCHANGED panelVars

RemainingInit(minutes) == minutes * SecPerMin

\* continuation after the POST /api/session resolved
createSessionOk(r) ==
  /\ r \in createReqs
  /\ createReqs' = createReqs \ {r}
  /\ currentSession' = r.id
  /\ remainingTime' = RemainingInit(r.minutes)
  /\ currentState' = ACTIVE_SESSION
  /\ timerRef' = r.id
  /\ armed' = armed \cup {r.id}
  /\ wsRef' = r.id
  /\ wsOpen' = wsOpen \cup {r.id}
  /\ TurnEffect(ACTIVE_SESSION, <<GreetingMsg>>, transcript, replyReqs)
  /\ timeouts' = AddTimeout(timeouts, "greet", GreetingDelay)
  /\ listening' = TRUE
  /\ cdTicks' = 0 /\ cdEnds' = 0 /\ cdDur' = r.minutes /\ UNCHANGED cdNow
  /\ LeaveStay
  /\ UNCHANGED <<setupVars, soundVars, isMeditating, lastCheckIn, audioVars,
                 dueTimers, dueCheckIn, starts, ends, postReset>>
  /\ UNCHANGED panelVars

\* mutant of createSessionFail: the countdown is started before the request
createSessionFail_Arms(r) ==
  /\ r \in createReqs
  /\ createReqs' = createReqs \ {r}
  /\ timerRef' = r.id
  /\ armed' = armed \cup {r.id}
  /\ UNCHANGED <<currentState, setupVars, currentSession, messages, remainingTime,
                 soundVars, isMeditating, lastCheckIn, wsRef, audioVars,
                 listening, transcript, wsOpen, replyReqs,
                 timeouts, dueTimers, dueCheckIn, starts, ends, turns,
                 postReset, cdVars, stayVars>>
  /\ UNCHANGED panelVars

\* the POST rejected: catch logs to the console
createSessionFail(r) ==
  /\ r \in createReqs
  /\ createReqs' = createReqs \ {r}
  /\ UNCHANGED <<currentState, setupVars, currentSession, messages, remainingTime,
                 soundVars, isMeditating, lastCheckIn, refVars, audioVars,
                 listening, transcript, armed, wsOpen, replyReqs,
                 timeouts, dueTimers, dueCheckIn, starts, ends, turns,
                 postReset, cdVars, stayVars>>
  /\ UNCHANGED panelVars

\* ------------------------------------------------------- audio playback
\* playAudioFromBase64: the clip becomes the src of the one audio element
\* and is played from its start, whatever the element was playing
\* URL.createObjectURL: one more object URL holds a clip buffer; the
\* component never calls URL.revokeObjectURL
createObjectURL(n) == IF n < MaxUrls THEN n + 1 ELSE MaxUrls

PlayAudio(clip) ==
  /\ audioSrc' = clip
  /\ audioCut' = (audioSrc # NoClip)
  /\ urls' = createObjectURL(urls)

IntroCount == introReqs[0] + introReqs[1] + introReqs[2] + introReqs[3] + introReqs[4]
\* fewer introduction requests are in flight than the explored runs allow
IntroRoom == IntroCount < MaxIntros

\* continuation of speakIntroduction: the POST /api/generate-speech
\* resolved, with or without audio_data in the response
speakIntroductionOk(p, hasAudio) ==
  /\ introReqs[p] > 0
  /\ introReqs' = [introReqs EXCEPT ![p] = @ - 1]
  /\ IF hasAudio THEN PlayAudio(IntroClip(p)) ELSE UNCHANGED <<audioSrc, audioCut, urls>>
  /\ UNCHANGED <<currentState, setupVars, currentSession, messages, remainingTime,
                 soundVars, isMeditating, lastCheckIn, refVars,
                 listening, transcript, armed, wsOpen, createReqs, replyReqs,
                 timeouts, dueTimers, dueCheckIn, starts, ends, turns,
                 postReset, cdVars, stayVars>>
  /\ UNCHANGED panelVars

\* mutant of speakIntroductionFail: the failure returns to the first persona
speakIntroductionFail_Resets(p) ==
  /\ introReqs[p] > 0
  /\ introReqs' = [introReqs EXCEPT ![p] = @ - 1]
  /\ selectedPersona' = 0
  /\ UNCHANGED <<currentState, sessionMinutes, navs, adjusts, navTrail, adjTrail,
                 currentSession, messages, remainingTime,
                 soundVars, isMeditating, lastCheckIn, refVars, audioSrc, audioCut, urls,
                 listening, transcript, armed, wsOpen, createReqs, replyReqs,
                 timeouts, dueTimers, dueCheckIn, starts, ends, turns,
                 postReset, cdVars, stayVars>>
  /\ UNCHANGED panelVars

\* the POST rejected: catch logs to the console
speakIntroductionFail(p) ==
  /\ introReqs[p] > 0
  /\ introReqs' = [introReqs EXCEPT ![p] = @ - 1]
  /\ UNCHANGED <<currentState, setupVars, currentSession, messages, remainingTime,
                 soundVars, isMeditating, lastCheckIn, refVars, audioSrc, audioCut, urls,
                 listening, transcript, armed, wsOpen, createReqs, replyReqs,
                 timeouts, dueTimers, dueCheckIn, starts, ends, turns,
                 postReset, cdVars, stayVars>>
  /\ UNCHANGED panelVars

\* the clip the audio element plays reaches its end
audioEnded ==
  /\ audioSrc # NoClip
  /\ audioSrc' = NoClip
  /\ audioCut' = FALSE
  /\ UNCHANGED urls
  /\ UNCHANGED <<currentState, setupVars, currentSession, messages, remainingTime,
                 soundVars, isMeditating, lastCheckIn, refVars, introReqs,
                 listening, transcript, armed, wsOpen, createReqs, replyReqs,
                 timeouts, dueTimers, dueCheckIn, starts, ends, turns,
                 postReset, cdVars, stayVars>>
  /\ UNCHANGED panelVars

\* ------------------------------------------------------ realtime channel
\* what a message of the backend carries: audio, the type
\* 'meditation_suggestion', both or neither
WsPayloads == [audio : BOOLEAN, suggestion : BOOLEAN]
SuggestionPush == [audio |-> FALSE, suggestion |-> TRUE]

\* onmessage of an open socket
handleWebSocketMessage(w, data) ==
  /\ w \in wsOpen
  /\ IF data.audio THEN PlayAudio(PushClip) ELSE UNCHANGED <<audioSrc, audioCut, urls>>
  /\ IF data.suggestion
     THEN currentState' = MEDITATION_SELECTION /\ LeaveStay
     ELSE UNCHANGED <<currentState, stayVars>>
  /\ UNCHANGED <<setupVars, currentSession, messages, remainingTime,
                 soundVars, isMeditating, lastCheckIn, refVars, introReqs,
                 listening, transcript, armed, wsOpen, createReqs, replyReqs,
                 timeouts, dueTimers, dueCheckIn, starts, ends, turns,
                 postReset, cdVars>>
  /\ UNCHANGED panelVars

\* the server or the network closes an open socket: the component sets no
\* onclose and no onerror handler
wsClosed(w) ==
  /\ w \in wsOpen
  /\ wsOpen' = wsOpen \ {w}
  /\ UNCHANGED <<currentState, setupVars, currentSession, messages, remainingTime,
                 soundVars, isMeditating, lastCheckIn, refVars, audioVars,
                 listening, transcript, armed, createReqs, replyReqs,
                 timeouts, dueTimers, dueCheckIn, starts, ends, turns,
                 postReset, cdVars, stayVars>>
  /\ UNCHANGED panelVars

\* ------------------------------------------------------------ speech turn
\* the speech turns taken or kept in the transcript
Spoken == turns + (IF transcript = NoText THEN 0 ELSE 1)

\* the recogniser delivers speech while it is listening
speech(text) ==
  /\ listening
  /\ TurnEffect(currentState, messages, Heard(transcript, text), replyReqs)
  /\ UNCHANGED <<currentState, setupVars, currentSession, remainingTime,
                 soundVars, isMeditating, lastCheckIn, refVars, audioVars,
                 listening, armed, wsOpen, createReqs,
                 timeouts, dueTimers, dueCheckIn, starts, ends,
                 postReset, cdVars, stayVars>>
  /\ UNCHANGED panelVars

\* the 1 s timeout of startSession calls generateTherapistResponse(greeting)
greetTimeout ==
  /\ timeouts["greet"][0] > 0
  /\ timeouts' = TakeTimeout(timeouts, "greet")
  /\ replyReqs' = [replyReqs EXCEPT ![0] = @ + 1]
  /\ UNCHANGED <<currentState, setupVars, currentSession, messages, remainingTime,
                 soundVars, isMeditating, lastCheckIn, refVars, audioVars,
                 listening, transcript, armed, wsOpen, createReqs,
                 dueTimers, dueCheckIn, starts, ends, turns,
                 postReset, cdVars, stayVars>>
  /\ UNCHANGED panelVars

\* mutant of ReplyMessages: the reply is appended twice
ReplyMessages_Twice(i, n) == <<ResponseMsg(i, n), ResponseMsg(i, n)>>

\* what generateTherapistResponse appends once its request resolved
ReplyMessages(i, n) == <<ResponseMsg(i, n)>>

\* continuation of generateTherapistResponse after the POST resolved;
\* i is the index Math.random picks
generateTherapistResponseOk(n, i) ==
  /\ replyReqs[n] > 0
  /\ Len(messages) + Len(ReplyMessages(i, n)) <= MaxLog
  /\ replyReqs' = [replyReqs EXCEPT ![n] = @ - 1]
  /\ messages' = messages \o ReplyMessages(i, n)
  /\ timeouts' = IF IncludesMeditation(i)
                 THEN AddTimeout(timeouts, "suggest", SuggestDelay) ELSE timeouts
  /\ UNCHANGED <<currentState, setupVars, currentSession, remainingTime,
                 soundVars, isMeditating, lastCheckIn, refVars, audioVars,
                 listening, transcript, armed, wsOpen, createReqs,
                 dueTimers, dueCheckIn, starts, ends, turns,
                 postReset, cdVars, stayVars>>
  /\ UNCHANGED panelVars

\* the POST rejected: catch logs to the console
generateTherapistResponseFail(n) ==
  /\ replyReqs[n] > 0
  /\ replyReqs' = [replyReqs EXCEPT ![n] = @ - 1]
  /\ UNCHANGED <<currentState, setupVars, currentSession, messages, remainingTime,
                 soundVars, isMeditating, lastCheckIn, refVars, audioVars,
                 listening, transcript, armed, wsOpen, createReqs,
                 timeouts, dueTimers, dueCheckIn, starts, ends, turns,
                 postReset, cdVars, stayVars>>
  /\ UNCHANGED panelVars

\* mutant of suggestTimeout: the timeout fires without changing the state
suggestTimeout_Stays ==
  /\ timeouts["suggest"][0] > 0
  /\ timeouts' = TakeTimeout(timeouts, "suggest")
  /\ UNCHANGED <<currentState, stayVars, setupVars, currentSession, messages,
                 remainingTime, soundVars, isMeditating, lastCheckIn, refVars, audioVars,
                 listening, transcript, armed, wsOpen, createReqs, replyReqs,
                 dueTimers, dueCheckIn, starts, ends, turns,
                 postReset, cdVars>>
  /\ UNCHANGED panelVars

\* the 3 s timeout scheduled by a reply that mentions meditation
suggestTimeout ==
  /\ timeouts["suggest"][0] > 0
  /\ timeouts' = TakeTimeout(timeouts, "suggest")
  /\ currentState' = MEDITATION_SELECTION
  /\ LeaveStay
  /\ UNCHANGED <<setupVars, currentSession, messages, remainingTime,
                 soundVars, isMeditating, lastCheckIn, refVars, audioVars,
                 listening, transcript, armed, wsOpen, createReqs, replyReqs,
                 dueTimers, dueCheckIn, starts, ends, turns,
                 postReset, cdVars>>
  /\ UNCHANGED panelVars

\* -------------------------------------------------------------- meditation
\* startMeditation(sound) up to its await
startMeditation(s) ==
  /\ currentState = MEDITATION_SELECTION
  /\ selectedSound' = s
  /\ isMeditating' = TRUE
  /\ currentState' = MEDITATION_ACTIVE
  /\ trackReqs' = trackReqs \cup {[id |-> meds + 1, sound |-> s]}
  /\ meds' = meds + 1
  /\ dueCheckIn' = (isMeditating /\ dueCheckIn)
  /\ stayKind' = "pending" /\ stayTicks' = 0 /\ stayCI' = 0
  /\ UNCHANGED <<setupVars, currentSession, messages, remainingTime,
                 musicTracks, lastCheckIn, refVars, audioVars,
                 listening, transcript, armed, wsOpen, createReqs, replyReqs,
                 timeouts, dueTimers, starts, ends, turns,
                 postReset, cdVars>>
  /\ UNCHANGED panelVars

\* the value startMeditation gives CheckInClock: Date.now(), age 0
CheckInClockNow == 0

\* continuation of startMeditation after GET /api/music/<category> resolved
startMeditationOk(r) ==
  /\ r \in trackReqs
  /\ HasRoom
  /\ trackReqs' = trackReqs \ {r}
  /\ musicTracks' = r.sound
  /\ messages' = Append(messages, TransitionMsg(r.sound))
  /\ lastCheckIn' = CheckInClockNow
  /\ dueCheckIn' = FALSE
  /\ IF stayKind # "none"
     THEN stayKind' = "set" /\ stayTicks' = 0 /\ stayCI' = 0
     ELSE UNCHANGED stayVars
  /\ UNCHANGED <<currentState, setupVars, currentSession, remainingTime,
                 selectedSound, meds, isMeditating, refVars, audioVars,
                 listening, transcript, armed, wsOpen, createReqs, replyReqs,
                 timeouts, dueTimers, starts, ends, turns,
                 postReset, cdVars>>
  /\ UNCHANGED panelVars

\* mutant of startMeditationFail: the failure returns to the sound menu
startMeditationFail_Reverts(r) ==
  /\ r \in trackReqs
  /\ trackReqs' = trackReqs \ {r}
  /\ currentState' = MEDITATION_SELECTION
  /\ selectedSound' = NULL
  /\ LeaveStay
  /\ UNCHANGED <<setupVars, currentSession, messages, remainingTime,
                 musicTracks, meds, isMeditating, lastCheckIn, refVars, audioVars,
                 listening, transcript, armed, wsOpen, createReqs, replyReqs,
                 timeouts, dueTimers, dueCheckIn, starts, ends, turns,
                 postReset, cdVars>>
  /\ UNCHANGED panelVars

\* the GET rejected: catch logs to the console
startMeditationFail(r) ==
  /\ r \in trackReqs
  /\ trackReqs' = trackReqs \ {r}
  /\ IF stayKind = "pending" /\ r.id = meds
     THEN stayKind' = "failed" /\ stayTicks' = 0 /\ stayCI' = 0
     ELSE UNCHANGED stayVars
  /\ UNCHANGED <<currentState, setupVars, currentSession, messages, remainingTime,
                 selectedSound, musicTracks, meds, isMeditating, lastCheckIn, refVars, audioVars,
                 listening, transcript, armed, wsOpen, createReqs, replyReqs,
                 timeouts, dueTimers, dueCheckIn, starts, ends, turns,
                 postReset, cdVars>>
  /\ UNCHANGED panelVars

\* "Continue without meditation"
skipMeditation ==
  /\ currentState = MEDITATION_SELECTION
  /\ currentState' = ACTIVE_SESSION
  /\ TurnEffect(ACTIVE_SESSION, messages, transcript, replyReqs)
  /\ UNCHANGED <<setupVars, currentSession, remainingTime,
                 soundVars, isMeditating, lastCheckIn, refVars, audioVars,
                 listening, armed, wsOpen, createReqs,
                 timeouts, dueTimers, dueCheckIn, starts, ends,
                 postReset, cdVars, stayVars>>
  /\ UNCHANGED panelVars

\* "Return to conversation"
returnToSession ==
  /\ currentState = MEDITATION_ACTIVE
  /\ currentState' = ACTIVE_SESSION
  /\ TurnEffect(ACTIVE_SESSION, messages, transcript, replyReqs)
  /\ LeaveStay
  /\ UNCHANGED <<setupVars, currentSession, remainingTime,
                 soundVars, isMeditating, lastCheckIn, refVars, audioVars,
                 listening, armed, wsOpen, createReqs,
                 timeouts, dueTimers, dueCheckIn, starts, ends,
                 postReset, cdVars>>
  /\ UNCHANGED panelVars

\* ------------------------------------------------------------- endSession
\* clearInterval(timerRef.current): the intervals left armed
ClearTimer(S) == S \ {timerRef}
\* wsRef.current.close(): the sockets left open
CloseSocket(S) == S \ {wsRef}

\* the body of endSession; due is the set of countdown callbacks still due
\* on this tick when it is called
EndSessionBody(due) ==
  /\ HasRoom
  /\ armed' = ClearTimer(armed)
  /\ dueTimers' = ClearTimer(due)
  /\ wsOpen' = CloseSocket(wsOpen)
  /\ listening' = FALSE
  /\ messages' = Append(messages, ClosingMsg)
  /\ timeouts' = AddTimeout(timeouts, "settle", SettleDelay)
  /\ UNCHANGED <<currentState, setupVars, currentSession,
                 soundVars, isMeditating, lastCheckIn, refVars, audioVars,
                 transcript, createReqs, replyReqs,
                 dueCheckIn, starts, turns, postReset, stayVars>>

\* the End button, shown in the three active states
endSession ==
  /\ currentState \in ActiveStates
  /\ ends < MaxEnds
  /\ ends' = ends + 1
  /\ EndSessionBody(dueTimers)
  /\ UNCHANGED <<remainingTime, cdVars>>
  /\ UNCHANGED panelVars

\* ------------------------------------------------------- countdown interval
\* whether the updater of setRemainingTime ends the session
Expired(prev) == prev <= 1

\* one callback of the interval startTimer armed
countdownTick(i) ==
  /\ i \in dueTimers
  /\ IF Expired(remainingTime)
     THEN /\ remainingTime' = 0
          /\ EndSessionBody(dueTimers \ {i})
          /\ cdEnds' = Min(cdEnds + 1, 2)
          /\ cdTicks' = IF i = timerRef /\ cdEnds = 0 THEN cdTicks + 1 ELSE cdTicks
          /\ cdNow' = TRUE
          /\ UNCHANGED <<cdDur, ends>>
     ELSE /\ remainingTime' = remainingTime - 1
          /\ dueTimers' = dueTimers \ {i}
          /\ cdTicks' = IF i = timerRef /\ cdEnds = 0 THEN cdTicks + 1 ELSE cdTicks
          /\ UNCHANGED <<cdEnds, cdDur, cdNow>>
          /\ UNCHANGED <<currentState, setupVars, currentSession, messages,
                         soundVars, isMeditating, lastCheckIn, refVars, audioVars,
                         listening, transcript, armed, wsOpen, createReqs, replyReqs,
                         timeouts, dueCheckIn, starts, ends, turns, postReset, stayVars>>
  /\ UNCHANGED panelVars

\* --------------------------------------------------------- check-in interval
\* mutant of CheckInDue: strictly more than the threshold
CheckInDue_Late(age) == age > CheckInThreshold

\* now - lastCheckIn >= 5 * 60 * 1000
CheckInDue(age) == age >= CheckInThreshold

\* the value a firing check-in gives CheckInClock: the now it compared with
CheckInReset(age) == 0

\* one callback of the interval the check-in effect armed
checkInPoll ==
  /\ dueCheckIn
  /\ dueCheckIn' = FALSE
  /\ IF CheckInDue(lastCheckIn)
     THEN /\ HasRoom
          /\ messages' = Append(messages, CheckInMsg)
          /\ lastCheckIn' = CheckInReset(lastCheckIn)
          /\ stayCI' = IF stayKind = "none" THEN 0 ELSE Min(stayCI + 1, 3)
          /\ UNCHANGED <<stayKind, stayTicks>>
     ELSE UNCHANGED <<messages, lastCheckIn, stayVars>>
  /\ UNCHANGED <<currentState, setupVars, currentSession, remainingTime,
                 soundVars, isMeditating, refVars, audioVars,
                 listening, transcript, armed, wsOpen, createReqs, replyReqs,
                 timeouts, dueTimers, starts, ends, turns, postReset, cdVars>>
  /\ UNCHANGED panelVars

\* ----------------------------------------------------------- settle reset
\* mutant of SettleReset: CheckInClock is not cleared
SettleReset_StaleClock ==
  [currentState |-> VOICE_SELECTION, selectedPersona |-> 0,
   sessionMinutes |-> DefaultMinutes, currentSession |-> NULL, messages |-> <<>>,
   remainingTime |-> 0, selectedSound |-> NULL, isMeditating |-> FALSE,
   lastCheckIn |-> lastCheckIn]

\* the values the 3 s timeout of endSession sets
SettleReset ==
  [currentState |-> VOICE_SELECTION, selectedPersona |-> 0,
   sessionMinutes |-> DefaultMinutes, currentSession |-> NULL, messages |-> <<>>,
   remainingTime |-> 0, selectedSound |-> NULL, isMeditating |-> FALSE,
   lastCheckIn |-> NoCheckIn]

settleTimeout ==
  /\ timeouts["settle"][0] > 0
  /\ timeouts' = TakeTimeout(timeouts, "settle")
  /\ currentState' = SettleReset.currentState
  /\ selectedPersona' = SettleReset.selectedPersona
  /\ sessionMinutes' = SettleReset.sessionMinutes
  /\ currentSession' = SettleReset.currentSession
  /\ messages' = SettleReset.messages
  /\ remainingTime' = SettleReset.remainingTime
  /\ selectedSound' = SettleReset.selectedSound
  /\ isMeditating' = SettleReset.isMeditating
  /\ lastCheckIn' = SettleReset.lastCheckIn
  /\ dueCheckIn' = (dueCheckIn /\ CheckInArmedFor(isMeditating', lastCheckIn')
                      /\ lastCheckIn' = lastCheckIn /\ isMeditating' = isMeditating)
  /\ postReset' = TRUE
  /\ LeaveStay
  /\ navTrail' = <<>>
  /\ adjTrail' = <<>>
  /\ UNCHANGED <<navs, adjusts, musicTracks, meds, trackReqs, refVars, audioVars,
                 listening, transcript, armed, wsOpen, createReqs, replyReqs,
                 dueTimers, starts, ends, turns, cdVars>>
  /\ UNCHANGED panelVars

\* ------------------------------------------------------------------- time
\* one second passes: every armed interval and every expired timeout is due
Tick ==
  /\ NothingDue
  /\ timeouts' = AgeTimeouts(timeouts)
  /\ dueTimers' = armed
  /\ dueCheckIn' = CheckInArmed
  /\ lastCheckIn' = IF lastCheckIn = NoCheckIn THEN NoCheckIn
                    ELSE Min(lastCheckIn + 1, CheckInThreshold)
  /\ stayTicks' = IF stayKind \in {"set", "failed"}
                  THEN Min(stayTicks + 1, 2 * CheckInThreshold + 1) ELSE stayTicks
  /\ cdNow' = FALSE
  /\ UNCHANGED <<currentState, setupVars, currentSession, messages, remainingTime,
                 soundVars, isMeditating, refVars, audioVars,
                 listening, transcript, armed, wsOpen, createReqs, replyReqs,
                 starts, ends, turns, postReset, cdTicks, cdEnds, cdDur,
                 stayKind, stayCI>>
  /\ UNCHANGED panelVars

\* ------------------------------------------------------------ the machine
Directions == {"left", "right"}
Changes == {-AdjustStep, AdjustStep}

\* the setup of a session: up to MaxNav navigations, up to MaxAdjust adjustments
SetupStep ==
  \/ \E direction \in Directions : navs < MaxNav /\ navigatePersona(direction)
  \/ \E change \in Changes : adjusts < MaxAdjust /\ adjustTimer(change)

\* the timeouts and the countdown every session arms, and the passing of time
TimerStep ==
  \/ greetTimeout
  \/ settleTimeout
  \/ \E i \in dueTimers : countdownTick(i)
  \/ Tick

\* the user has not pressed Start before
FirstStart == starts = 0

\* the user presses End while no settle reset is pending
EndOnce == ~Pending("settle")

SessionStep ==
  \/ confirmPersona
  \/ \E r \in createReqs : createSessionOk(r)
  \/ \E r \in createReqs : createSessionFail(r)

ReplyStep ==
  \/ \E n \in TurnIds, i \in ResponseDraws : generateTherapistResponseOk(n, i)
  \/ \E n \in TurnIds : generateTherapistResponseFail(n)

TalkStep ==
  \/ (Spoken < MaxTurns /\ speech(PlainText))
  \/ ReplyStep
  \/ suggestTimeout
  \/ skipMeditation

MeditationStep ==
  \/ \E w \in wsOpen : handleWebSocketMessage(w, SuggestionPush)
  \/ \E s \in SoundChoices : meds < MaxMeds /\ startMeditation(s)
  \/ \E r \in trackReqs : startMeditationOk(r)
  \/ \E r \in trackReqs : startMeditationFail(r)
  \/ skipMeditation
  \/ returnToSession
  \/ checkInPoll

\* the self-introduction requests resolve, the clip played reaches its end
AudioStep ==
  \/ \E p \in Personas, hasAudio \in BOOLEAN : speakIntroductionOk(p, hasAudio)
  \/ \E p \in Personas : speakIntroductionFail(p)
  \/ audioEnded

\* the backend sends a message on an open socket, or the socket is closed
\* from outside
ChannelStep ==
  \/ \E w \in wsOpen, data \in WsPayloads : handleWebSocketMessage(w, data)
  \/ \E w \in wsOpen : wsClosed(w)

\* every handler, continuation and callback of the component
Next ==
  \/ SetupStep \/ SessionStep \/ startSession \/ endSession \/ TalkStep
  \/ MeditationStep \/ TimerStep \/ AudioStep \/ ChannelStep
Spec == Init /\ [][Next]_vars

\* the user may press Start again; nobody speaks, no meditation is offered
NextStart == SetupStep \/ SessionStep \/ startSession \/ endSession \/ TimerStep
SpecStart == Init /\ [][NextStart]_vars

\* one session of conversation, ended by one press of End or by the
\* countdown; no sound is selected
NextTalk ==
  \/ SessionStep \/ (FirstStart /\ startSession) \/ (EndOnce /\ endSession)
  \/ TalkStep \/ TimerStep
SpecTalk == Init /\ [][NextTalk]_vars

\* one session with a meditation, ended by one press of End or by the
\* countdown; the user does not speak and the reply to the greeting stays
\* pending
NextMed ==
  \/ SessionStep \/ (FirstStart /\ startSession) \/ (EndOnce /\ endSession)
  \/ MeditationStep \/ TimerStep
SpecMed == Init /\ [][NextMed]_vars

\* the meditation session after a persona and a duration were chosen, End
\* pressed at any time, with the timers of the browser firing: a due callback
\* runs, time passes
NextFair == SetupStep \/ NextMed \/ endSession
CountdownStep == \E i \in dueTimers : countdownTick(i)
FairSpec ==
  /\ Init /\ [][NextFair]_vars
  /\ WF_vars(Tick)
  /\ WF_vars(greetTimeout)
  /\ WF_vars(settleTimeout)
  /\ WF_vars(checkInPoll)
  /\ WF_vars(CountdownStep)

\* the setup screens, any number of navigations and adjustments; the
\* introduction requests and the session request, made once, are rejected
NextSetup ==
  \/ \E direction \in Directions : IntroRoom /\ navigatePersona(direction)
  \/ \E p \in Personas : speakIntroductionFail(p)
  \/ confirmPersona
  \/ \E change \in Changes : adjustTimer(change)
  \/ (FirstStart /\ startSession)
  \/ \E r \in createReqs : createSessionFail(r)
SpecSetup == Init /\ [][NextSetup]_vars

\* the conversation with the timers of the browser firing
\* (a due callback runs, and with none due a second passes)
ClockTalk == TimerStep \/ suggestTimeout
FairTalk == Init /\ [][NextTalk]_vars /\ WF_vars(ClockTalk)

\* no session exists and none is requested
NoSession == createReqs = {} /\ currentSession = NULL

\* sessions of conversation one after the other: Start is pressed again only
\* after the reset of the session before
NextAgain ==
  \/ SessionStep \/ (NoSession /\ startSession) \/ (EndOnce /\ endSession)
  \/ TalkStep \/ TimerStep
SpecAgain == Init /\ [][NextAgain]_vars

\* one session in which a sound is selected again after the backend offered
\* the sound menu again; the user does not speak
NextSounds ==
  \/ SessionStep \/ (FirstStart /\ startSession) \/ (EndOnce /\ endSession)
  \/ \E w \in wsOpen : handleWebSocketMessage(w, SuggestionPush)
  \/ \E s \in SoundChoices : meds < MaxSounds /\ startMeditation(s)
  \/ \E r \in trackReqs : startMeditationOk(r)
  \/ \E r \in trackReqs : startMeditationFail(r)
  \/ returnToSession
  \/ TimerStep
SpecSounds == Init /\ [][NextSounds]_vars

\* the personas introduce themselves, then one session in which the backend
\* sends audio and suggestions; nobody speaks, no sound is selected
NextAudio ==
  \/ \E direction \in Directions : IntroRoom /\ navigatePersona(direction)
  \/ AudioStep
  \/ confirmPersona
  \/ (FirstStart /\ startSession)
  \/ \E r \in createReqs : createSessionOk(r)
  \/ ChannelStep
  \/ (EndOnce /\ endSession)
  \/ TimerStep
SpecAudio == Init /\ [][NextAudio]_vars

\* sessions one after the other in which the backend sends audio and
\* suggestions and the channel may be closed from outside; nobody speaks
NextChannel ==
  \/ SessionStep \/ (NoSession /\ startSession) \/ (EndOnce /\ endSession)
  \/ ChannelStep \/ audioEnded \/ TimerStep
SpecChannel == Init /\ [][NextChannel]_vars

\* the user may press Start again while a request is pending, and the
\* backend sends audio and suggestions; nobody speaks
NextPush == NextStart \/ ChannelStep \/ audioEnded
SpecPush == Init /\ [][NextPush]_vars

\* one session of conversation in which the user speaks with or without a
\* word of stress
NextPolicy ==
  \/ SessionStep \/ (FirstStart /\ startSession) \/ (EndOnce /\ endSession)
  \/ \E text \in Utterances : Spoken < MaxTurns /\ speech(text)
  \/ ReplyStep \/ suggestTimeout \/ skipMeditation \/ TimerStep
SpecPolicy == Init /\ [][NextPolicy]_vars

\* one session of conversation in which the user speaks again before the
\* reply to the turn before has come
NextOrder ==
  \/ SessionStep \/ (FirstStart /\ startSession) \/ (EndOnce /\ endSession)
  \/ (Spoken < MaxTalk /\ speech(PlainText))
  \/ ReplyStep \/ suggestTimeout \/ skipMeditation \/ TimerStep
SpecOrder == Init /\ [][NextOrder]_vars

\* one session, without conversation or meditation, in which End may be
\* pressed at any time, also after the countdown has ended the session
NextEnds ==
  \/ SessionStep \/ (FirstStart /\ startSession) \/ endSession \/ TimerStep
SpecEnds == Init /\ [][NextEnds]_vars

\* ------------------------------------------------- panel: session control
\* BreathingVisualization is rendered only while breathingActive: mounting
\* and unmounting both leave its cells at their initial values
MountBreathing == phase' = "inhale" /\ count' = 0 /\ phaseTicks' = 0

\* startSession up to its await; the Begin Meditation button is rendered
\* while no session is active and disabled while loading
panelStartSession ==
  /\ ~isSessionActive
  /\ ~isLoading
  /\ panelStarts < MaxPanelStarts
  /\ panelStarts' = panelStarts + 1
  /\ isLoading' = TRUE
  /\ sessionReq' = sessionReq + 1
  /\ logCleared' = FALSE
  /\ UNCHANGED <<isSessionActive, panelSession, panelMessages, panelWsRef,
                 panelListening, breathingActive, breathingPattern, currentTrack,
                 panelTracks, panelAudio, sockets, musicReq, breathVars,
                 pushes, lastSend>>
  /\ UNCHANGED appVars

\* the createSession request resolves: the rest of the try block and finally
panelCreateSessionOk ==
  /\ sessionReq > 0
  /\ sessionReq' = sessionReq - 1
  /\ panelSession' = panelStarts
  /\ isSessionActive' = TRUE
  /\ sockets' = [sockets EXCEPT ![panelStarts] = "connecting"]
  /\ panelWsRef' = panelStarts
  /\ panelListening' = TRUE
  /\ isLoading' = FALSE
  /\ UNCHANGED <<panelMessages, breathingActive, breathingPattern, currentTrack,
                 panelTracks, panelAudio, musicReq, breathVars,
                 panelStarts, pushes, lastSend, logCleared>>
  /\ UNCHANGED appVars

\* mutant of panelCreateSessionFail: the loading flag is left set
panelCreateSessionFail_KeepsLoading ==
  /\ sessionReq > 0
  /\ sessionReq' = sessionReq - 1
  /\ panelMessages' = Append(panelMessages, StartFailedMsg)
  /\ UNCHANGED <<isLoading, isSessionActive, panelSession, panelWsRef, panelListening,
                 breathingActive, breathingPattern, currentTrack,
                 panelTracks, panelAudio, sockets, musicReq, breathVars,
                 panelStarts, pushes, lastSend, logCleared>>
  /\ UNCHANGED appVars

\* the createSession request rejects: catch and finally
panelCreateSessionFail ==
  /\ sessionReq > 0
  /\ sessionReq' = sessionReq - 1
  /\ panelMessages' = Append(panelMessages, StartFailedMsg)
  /\ isLoading' = FALSE
  /\ UNCHANGED <<isSessionActive, panelSession, panelWsRef, panelListening,
                 breathingActive, breathingPattern, currentTrack,
                 panelTracks, panelAudio, sockets, musicReq, breathVars,
                 panelStarts, pushes, lastSend, logCleared>>
  /\ UNCHANGED appVars

\* onopen of socket i
panelWsOpen(i) ==
  /\ sockets[i] = "connecting"
  /\ sockets' = [sockets EXCEPT ![i] = "open"]
  /\ panelMessages' = Append(panelMessages, ConnectedMsg)
  /\ UNCHANGED <<isSessionActive, isLoading, panelSession, panelWsRef,
                 panelListening, breathingActive, breathingPattern, currentTrack,
                 panelTracks, panelAudio, sessionReq, musicReq, breathVars,
                 panelStarts, pushes, lastSend, logCleared>>
  /\ UNCHANGED appVars

\* onmessage of socket i: handleWebSocketMessage(data); a socket delivers
\* messages only while it is open
panelHandleWebSocketMessage(i, data) ==
  /\ sockets[i] = "open"
  /\ pushes < MaxPanelPush
  /\ pushes' = pushes + 1
  /\ panelAudio' = (panelAudio \/ data.audio)
  /\ panelMessages' = Append(panelMessages, PushedMsg(data))
  /\ UNCHANGED <<isSessionActive, isLoading, panelSession, panelWsRef,
                 panelListening, breathingActive, breathingPattern, currentTrack,
                 panelTracks, sockets, sessionReq, musicReq, breathVars,
                 panelStarts, lastSend, logCleared>>
  /\ UNCHANGED appVars

\* the connection of socket i fails, while connecting, open or in the closing
\* handshake: the socket is closed and onerror runs
panelWsError(i) ==
  /\ sockets[i] \in {"connecting", "open", "closing"}
  /\ sockets' = [sockets EXCEPT ![i] = "closed"]
  /\ panelMessages' = Append(panelMessages, ConnectionErrorMsg)
  /\ UNCHANGED <<isSessionActive, isLoading, panelSession, panelWsRef,
                 panelListening, breathingActive, breathingPattern, currentTrack,
                 panelTracks, panelAudio, sessionReq, musicReq, breathVars,
                 panelStarts, pushes, lastSend, logCleared>>
  /\ UNCHANGED appVars

\* socket i is closed cleanly, by the server or at the end of the closing
\* handshake: the component sets no onclose handler
panelWsClosed(i) ==
  /\ sockets[i] \in {"open", "closing"}
  /\ sockets' = [sockets EXCEPT ![i] = "closed"]
  /\ UNCHANGED <<isSessionActive, isLoading, panelSession, panelMessages, panelWsRef,
                 panelListening, breathingActive, breathingPattern, currentTrack,
                 panelTracks, panelAudio, sessionReq, musicReq, breathVars,
                 panelStarts, pushes, lastSend, logCleared>>
  /\ UNCHANGED appVars

\* the audio element plays the clip of a message to its end
panelAudioEnded ==
  /\ panelAudio
  /\ panelAudio' = FALSE
  /\ UNCHANGED <<isSessionActive, isLoading, panelSession, panelMessages, panelWsRef,
                 panelListening, breathingActive, breathingPattern, currentTrack,
                 panelTracks, sockets, sessionReq, musicReq, breathVars,
                 panelStarts, pushes, lastSend, logCleared>>
  /\ UNCHANGED appVars

\* WebSocket.send throws InvalidStateError on a connecting socket
SendThrows(readyState) == readyState = "connecting"
\* WebSocket.close(): an open socket starts the closing handshake
CloseState(readyState) == IF readyState = "open" THEN "closing" ELSE readyState

\* endSession, from the End Session button of the session controls.  The
\* three setters before the send are queued and committed also when the
\* send throws; what follows the send is then not run
panelEndSession ==
  /\ isSessionActive
  /\ isSessionActive' = FALSE
  /\ breathingActive' = FALSE
  /\ MountBreathing
  /\ currentTrack' = NULL
  /\ IF panelWsRef # NULL /\ SendThrows(sockets[panelWsRef])
     THEN /\ lastSend' = sockets[panelWsRef]
          /\ UNCHANGED <<sockets, panelListening, panelSession, panelMessages, logCleared>>
     ELSE /\ IF panelWsRef # NULL
             THEN /\ lastSend' = sockets[panelWsRef]
                  /\ sockets' = [sockets EXCEPT ![panelWsRef] = CloseState(@)]
             ELSE UNCHANGED <<lastSend, sockets>>
          /\ panelListening' = FALSE
          /\ panelSession' = NULL
          /\ panelMessages' = <<>>
          /\ logCleared' = TRUE
  /\ UNCHANGED <<isLoading, panelWsRef, breathingPattern, panelTracks, panelAudio,
                 sessionReq, musicReq, panelStarts, pushes>>
  /\ UNCHANGED appVars

\* the Request Check-in button of the session controls
requestCheckIn ==
  /\ isSessionActive
  /\ IF panelWsRef # NULL THEN lastSend' = sockets[panelWsRef] ELSE UNCHANGED lastSend
  /\ UNCHANGED <<isSessionActive, isLoading, panelSession, panelMessages, panelWsRef,
                 panelListening, breathingActive, breathingPattern, currentTrack,
                 panelTracks, panelAudio, sockets, sessionReq, musicReq, breathVars,
                 panelStarts, pushes, logCleared>>
  /\ UNCHANGED appVars

\* ---------------------------------------------------------- panel: music
\* loadMusicForCategory up to its await, from a category button of the setup
loadMusicForCategory ==
  /\ ~isSessionActive
  /\ musicReq = 0
  /\ musicReq' = musicReq + 1
  /\ UNCHANGED <<isSessionActive, isLoading, panelSession, panelMessages, panelWsRef,
                 panelListening, breathingActive, breathingPattern, currentTrack,
                 panelTracks, panelAudio, sockets, sessionReq, breathVars,
                 panelStarts, pushes, lastSend, logCleared>>
  /\ UNCHANGED appVars

\* the music request resolves with a list of tracks, empty (NULL) or not
loadMusicOk(tracks) ==
  /\ musicReq > 0
  /\ musicReq' = musicReq - 1
  /\ panelTracks' = tracks
  /\ UNCHANGED <<isSessionActive, isLoading, panelSession, panelMessages, panelWsRef,
                 panelListening, breathingActive, breathingPattern, currentTrack,
                 panelAudio, sockets, sessionReq, breathVars,
                 panelStarts, pushes, lastSend, logCleared>>
  /\ UNCHANGED appVars

\* the music request rejects: the catch only logs
loadMusicFail ==
  /\ musicReq > 0
  /\ musicReq' = musicReq - 1
  /\ UNCHANGED <<isSessionActive, isLoading, panelSession, panelMessages, panelWsRef,
                 panelListening, breathingActive, breathingPattern, currentTrack,
                 panelTracks, panelAudio, sockets, sessionReq, breathVars,
                 panelStarts, pushes, lastSend, logCleared>>
  /\ UNCHANGED appVars

\* a track button of the music controls, rendered in a session when the
\* track list is not empty
setCurrentTrack ==
  /\ isSessionActive
  /\ panelTracks # NULL
  /\ currentTrack = NULL
  /\ currentTrack' = panelTracks
  /\ UNCHANGED <<isSessionActive, isLoading, panelSession, panelMessages, panelWsRef,
                 panelListening, breathingActive, breathingPattern,
                 panelTracks, panelAudio, sockets, sessionReq, musicReq, breathVars,
                 panelStarts, pushes, lastSend, logCleared>>
  /\ UNCHANGED appVars

\* ------------------------------------------------------ panel: breathing
\* the Start Breathing / Stop Breathing button of the session controls
setBreathingActive ==
  /\ isSessionActive
  /\ breathingActive' = ~breathingActive
  /\ MountBreathing
  /\ UNCHANGED <<isSessionActive, isLoading, panelSession, panelMessages, panelWsRef,
                 panelListening, breathingPattern, currentTrack,
                 panelTracks, panelAudio, sockets, sessionReq, musicReq,
                 panelStarts, pushes, lastSend, logCleared>>
  /\ UNCHANGED appVars

\* a pattern button of the session controls; the effect re-arms its interval
\* and the cells of the component keep their values
setBreathingPattern(pattern) ==
  /\ isSessionActive
  /\ breathingPattern # pattern
  /\ breathingPattern' = pattern
  /\ UNCHANGED <<isSessionActive, isLoading, panelSession, panelMessages, panelWsRef,
                 panelListening, breathingActive, currentTrack,
                 panelTracks, panelAudio, sockets, sessionReq, musicReq, breathVars,
                 panelStarts, pushes, lastSend, logCleared>>
  /\ UNCHANGED appVars

\* one callback of the one-second interval of BreathingVisualization: the
\* updater of setCount
breathingTick ==
  /\ breathingActive
  /\ LET pattern == patterns[breathingPattern] IN
       IF phase = "inhale" /\ count >= pattern.inhale
       THEN phase' = "hold" /\ count' = 0 /\ phaseTicks' = 0
       ELSE IF phase = "hold" /\ count >= pattern.hold
       THEN phase' = "exhale" /\ count' = 0 /\ phaseTicks' = 0
       ELSE IF phase = "exhale" /\ count >= pattern.exhale
       THEN phase' = "inhale" /\ count' = 0 /\ phaseTicks' = 0
       ELSE count' = count + 1 /\ phaseTicks' = phaseTicks + 1 /\ UNCHANGED phase
  /\ UNCHANGED <<isSessionActive, isLoading, panelSession, panelMessages, panelWsRef,
                 panelListening, breathingActive, breathingPattern, currentTrack,
                 panelTracks, panelAudio, sockets, sessionReq, musicReq,
                 panelStarts, pushes, lastSend, logCleared>>
  /\ UNCHANGED appVars

\* --------------------------------------------------------- panel: machines
\* the panel-based controller: sessions one after the other, the channel
\* events of every socket created, the music and the breathing switch
NextPanel ==
  \/ panelStartSession \/ panelCreateSessionOk \/ panelCreateSessionFail
  \/ \E i \in SocketIds : panelWsOpen(i)
  \/ \E i \in SocketIds : \E data \in PanelPayloads : panelHandleWebSocketMessage(i, data)
  \/ \E i \in SocketIds : panelWsError(i)
  \/ \E i \in SocketIds : panelWsClosed(i)
  \/ panelAudioEnded
  \/ panelEndSession \/ requestCheckIn
  \/ loadMusicForCategory \/ loadMusicFail
  \/ \E tracks \in {NULL, 1} : loadMusicOk(tracks)
  \/ setCurrentTrack \/ setBreathingActive
SpecPanel == Init /\ [][NextPanel]_vars

\* one session of the panel, its channel opening at some time, in which the
\* breathing exercise runs
NextBreathing ==
  \/ (panelStarts = 0 /\ panelStartSession) \/ panelCreateSessionOk
  \/ \E i \in SocketIds : panelWsOpen(i)
  \/ setBreathingActive
  \/ \E pattern \in BreathingPatterns : setBreathingPattern(pattern)
  \/ breathingTick
  \/ panelEndSession
SpecBreathing == Init /\ [][NextBreathing]_vars

TypeOK ==
  /\ introReqs \in [Personas -> 0..MaxIntros]
  /\ urls \in 0..MaxUrls
  /\ audioSrc \in {NoClip, PushClip} \cup {IntroClip(p) : p \in Personas}
  /\ currentState \in APP_STATES
  /\ selectedPersona \in 0..(NumPersonas - 1)
  /\ sessionMinutes \in MinMinutes..MaxMinutes
  /\ remainingTime \in 0..RemainingInit(MaxMinutes)
  /\ lastCheckIn \in {NoCheckIn} \cup 0..CheckInThreshold
  /\ Len(messages) <= MaxLog
  /\ dueTimers \subseteq armed

\* the log capacity never holds back a timer callback that appends a message
NoForcedBlock ==
  /\ (dueCheckIn /\ CheckInDue(lastCheckIn)) => HasRoom
  /\ (dueTimers # {} /\ Expired(remainingTime)) => HasRoom

\* ------------------------------------------------------------------ claims
\* a step of endSession: the closing message is appended
EndSessionStep ==
  /\ Len(messages') = Len(messages) + 1
  /\ messages'[Len(messages')] = ClosingMsg

\* a step that appends a check-in message
CheckInAppended ==
  /\ Len(messages') = Len(messages) + 1
  /\ messages'[Len(messages')] = CheckInMsg

\* C1: in every reachable state at most one countdown interval is armed and
\* at most one realtime channel is open
C1_OneActiveSession ==
  /\ Cardinality(armed) <= 1
  /\ Cardinality(wsOpen) <= 1

\* C2: remaining-seconds is the configured minutes * 60 less one per tick of
\* the session's countdown, and the countdown invokes endSession exactly
\* once, on tick number minutes * 60, never again after zero
C2_CountdownEndsOnce ==
  /\ cdEnds <= 1
  /\ (cdEnds = 1 => cdTicks = RemainingInit(cdDur))
  /\ (currentSession # NULL /\ cdEnds = 0
        => remainingTime = RemainingInit(cdDur) - cdTicks)

\* C3: right after endSession returns no countdown interval and no check-in
\* interval is armed and the channel is closed, and no check-in message is
\* appended while the settle reset is pending
C3_EndDisarmsEverything ==
  [][/\ EndSessionStep => (armed' = {} /\ ~CheckInArmed' /\ wsOpen' = {})
     /\ Pending("settle") => ~CheckInAppended]_vars

\* the state the settle reset is said to leave
ResetState ==
  /\ currentState = VOICE_SELECTION
  /\ selectedPersona = 0
  /\ sessionMinutes = DefaultMinutes
  /\ currentSession = NULL
  /\ messages = <<>>
  /\ remainingTime = 0
  /\ selectedSound = NULL
  /\ ~isMeditating
  /\ lastCheckIn = NoCheckIn

\* C4: once endSession was invoked (its settle reset is pending) the machine
\* eventually is in VoiceSelection with persona 0, duration 15, no session,
\* an empty log, remaining-seconds 0, no sound, not meditating and
\* CheckInClock cleared
C4_EndLeadsToReset == Pending("settle") ~> ResetState

\* C4 witness: a session with another persona or duration, in which a sound
\* was selected, was ended and has been reset
C4_Witness ==
  /\ postReset /\ ResetState
  /\ navs + adjusts > 0
  /\ meds > 0

\* C5: after the settle reset, until the user starts another session, no
\* continuation of the ended session changes the state: the log stays empty,
\* the machine stays where the user left it, CheckInClock stays cleared
C5_NoStaleContinuation ==
  postReset =>
    /\ messages = <<>>
    /\ currentState \in {VOICE_SELECTION, TIMER_SETUP}
    /\ lastCheckIn = NoCheckIn

\* the replies in log ms to user turn n
Replies(ms, n) ==
  Cardinality({k \in 1..Len(ms) :
                 ms[k].type = "therapist" /\ ms[k].content = "response" /\ ms[k].re = n})

\* the reply request of user turn n resolves successfully in this step
ReplySucceeds(n) ==
  /\ replyReqs'[n] = replyReqs[n] - 1
  /\ messages' # messages

\* C6: the log never holds two replies to the same user turn, and the step in
\* which the reply request of a turn succeeds appends exactly one therapist
\* message, the reply to that turn
C6_OneReplyPerTurn ==
  [][\A n \in 1..MaxTurns :
       /\ Replies(messages', n) <= 1
       /\ ReplySucceeds(n) =>
            /\ Len(messages') = Len(messages) + 1
            /\ SubSeq(messages', 1, Len(messages)) = messages
            /\ messages'[Len(messages')].type = "therapist"
            /\ messages'[Len(messages')].re = n
            /\ Replies(messages', n) = 1]_vars

\* C6 witness: the log holds a user turn followed by its one reply
C6_Witness ==
  \E k \in 1..Len(messages) :
    /\ messages[k].type = "user"
    /\ Replies(messages, messages[k].re) = 1
    /\ \E j \in (k + 1)..Len(messages) :
         messages[j].content = "response" /\ messages[j].re = messages[k].re

\* C7: a user turn in the log whose reply request is no longer pending is
\* followed by a message for that turn, also when the request failed
C7_FailedReplyStillAnswered ==
  \A k \in 1..Len(messages) :
    messages[k].type = "user" =>
      \/ replyReqs[messages[k].re] > 0
      \/ \E j \in (k + 1)..Len(messages) :
           messages[j].type # "user" /\ messages[j].re = messages[k].re

\* C8: in a stay in MeditationActive whose CheckInClock was set t ticks ago
\* (t up to twice the threshold), once the callbacks of the tick have run,
\* exactly t div threshold check-in messages were appended since and the
\* clock's age is t mod threshold: one at the threshold, two at twice the
\* threshold, a threshold apart, each firing resetting the clock
C8_CheckInCadence ==
  (stayKind = "set" /\ ~dueCheckIn /\ stayTicks <= 2 * CheckInThreshold) =>
    /\ stayCI = stayTicks \div CheckInThreshold
    /\ lastCheckIn = stayTicks % CheckInThreshold

\* C8 witness: twice the threshold into such a stay, two check-ins appended
C8_Witness ==
  /\ stayKind = "set" /\ ~dueCheckIn
  /\ currentState = MEDITATION_ACTIVE
  /\ stayTicks = 2 * CheckInThreshold
  /\ stayCI = 2

\* C9: a check-in message is appended only while the machine is in
\* MeditationActive
C9_CheckInOnlyInMeditation ==
  [][CheckInAppended => currentState = MEDITATION_ACTIVE]_vars

\* C10: when the machine has stayed in MeditationActive for a full check-in
\* interval after the track lookup of the selected sound resolved (found or
\* failed) and the session was not ended, a check-in message has been appended
C10_CheckInAfterInterval ==
  (/\ stayKind \in {"set", "failed"} /\ stayTicks >= CheckInThreshold
   /\ ~dueCheckIn /\ ~Pending("settle")) =>
    stayCI >= 1

\* the expiry callback of the countdown is due on the current tick
ExpiryDue == dueTimers # {} /\ Expired(remainingTime)

\* C11: on a tick on which the countdown expires no check-in message is
\* appended, neither before the expiring callback has run nor after it
C11_ExpiryDropsCheckIn ==
  [][CheckInAppended => ~(ExpiryDue \/ cdNow)]_vars

\* the last navigation was direction, pressed at index p
LastNav(direction, p) ==
  /\ navTrail # <<>>
  /\ navTrail[Len(navTrail)].dir = direction
  /\ navTrail[Len(navTrail)].from = p

\* C12: the persona index stays inside the catalog; after 'left' pressed at
\* index 0 it is the last index, after 'right' pressed at the last index it
\* is 0, and after two navigations in opposite directions it is the index
\* the first of them was pressed at
C12_PersonaWraps ==
  /\ selectedPersona \in 0..(NumPersonas - 1)
  /\ LastNav("left", 0) => selectedPersona = NumPersonas - 1
  /\ LastNav("right", NumPersonas - 1) => selectedPersona = 0
  /\ (Len(navTrail) = 2 /\ navTrail[1].dir # navTrail[2].dir) =>
       selectedPersona = navTrail[1].from

\* C12 witness: 'left' pressed at index 0, then 'right' pressed at the last
\* index, back at 0
C12_Witness ==
  /\ Len(navTrail) = 2
  /\ navTrail[1] = [dir |-> "left", from |-> 0]
  /\ LastNav("right", NumPersonas - 1)
  /\ selectedPersona = 0

\* the last adjustment was change, pressed at m minutes
LastAdjust(change, m) ==
  adjTrail # <<>> /\ adjTrail[1].change = change /\ adjTrail[1].from = m

\* C13: the configured minutes stay within [5, 60]; after -5 pressed at 5
\* they are 5, after +5 pressed at 60 they are 60, and after any other
\* adjustment they are the previous minutes plus the change
C13_DurationClamped ==
  /\ sessionMinutes \in MinMinutes..MaxMinutes
  /\ LastAdjust(-AdjustStep, MinMinutes) => sessionMinutes = MinMinutes
  /\ LastAdjust(AdjustStep, MaxMinutes) => sessionMinutes = MaxMinutes
  /\ \A c \in Changes, m \in MinMinutes..MaxMinutes :
       (LastAdjust(c, m) /\ m + c \in MinMinutes..MaxMinutes) => sessionMinutes = m + c

\* C13 witness: -5 was pressed at 5 and +5 at 60, the latter last
C13_Witness ==
  /\ LastAdjust(AdjustStep, MaxMinutes)
  /\ adjTrail[1].held = {MinMinutes, MaxMinutes}
  /\ sessionMinutes = MaxMinutes

\* Start was pressed and no session request is pending any more
RequestSettled == starts > 0 /\ createReqs = {}

\* C14: where every session request is rejected, once the request has
\* failed the machine is in TimerSetup with no session record,
\* remaining-seconds still 0, no countdown armed, no channel open,
\* transcript capture not started and no greeting turn scheduled
C14_FailedCreateAborts ==
  RequestSettled =>
    /\ currentState = TIMER_SETUP
    /\ currentSession = NULL
    /\ remainingTime = 0
    /\ armed = {} /\ timerRef = NULL
    /\ wsOpen = {} /\ wsRef = NULL
    /\ ~listening
    /\ ~Pending("greet")

\* C14 witness: the request for a 20-minute session has failed
C14_Witness ==
  /\ RequestSettled
  /\ currentState = TIMER_SETUP
  /\ LastAdjust(AdjustStep, DefaultMinutes)

\* the log holds a message that surfaces a failure
ErrorSurfaced == \E k \in 1..Len(messages) : messages[k].type \in {"error", "system"}

\* C15: where every session request is rejected, once the request has
\* failed the log holds an error or system message
C15_FailedCreateSurfaced == RequestSettled => ErrorSurfaced

\* a step in which a user message is appended and a reply requested
UserTurnTaken == turns' # turns

\* C17: a user turn is taken only from speech that arrives while the
\* machine is in ActiveSession and no settle reset is pending: never from a
\* transcript that was captured earlier, outside ActiveSession, and kept
C17_BufferedSpeechDropped ==
  [][UserTurnTaken =>
       (transcript = 0 /\ currentState = ACTIVE_SESSION /\ ~Pending("settle"))]_vars

\* a step in which a session record is stored
SessionCreated == currentSession' # currentSession /\ currentSession' # NULL

\* C16: the step that stores the session record of a successful request
\* leaves the machine in ActiveSession, the record holding the id the server
\* issued for one of the pending requests, remaining-seconds the minutes of
\* that request times 60, its countdown armed, its channel open, transcript
\* capture started and a log that consists of the greeting
C16_CreateSessionResult ==
  [][SessionCreated =>
       /\ currentState' = ACTIVE_SESSION
       /\ \E r \in createReqs :
            /\ currentSession' = r.id
            /\ remainingTime' = r.minutes * SecPerMin
       /\ timerRef' = currentSession' /\ timerRef' \in armed'
       /\ wsRef' = currentSession' /\ wsRef' \in wsOpen'
       /\ listening'
       /\ messages' = <<GreetingMsg>>]_vars

\* a step that appends canned reply i
ReplyAppended(i) ==
  /\ Len(messages') = Len(messages) + 1
  /\ messages'[Len(messages')].content = "response"
  /\ messages'[Len(messages')].arg = i

\* C18: the step that appends a reply recommending meditation schedules one
\* transition 3 s ahead, the step that appends any other reply schedules
\* none, and a scheduled transition leads to MeditationSelection
C18_SuggestionLeadsToSelection ==
  /\ [][\A i \in ResponseDraws :
          ReplyAppended(i) =>
            timeouts'["suggest"] =
              IF IncludesMeditation(i)
              THEN AddTimeout(timeouts, "suggest", SuggestDelay)["suggest"]
              ELSE timeouts["suggest"]]_vars
  /\ Pending("suggest") ~> currentState = MEDITATION_SELECTION

\* C18 witness: the reply to a user turn recommended meditation and the
\* machine has entered MeditationSelection
C18_Witness ==
  /\ currentState = MEDITATION_SELECTION
  /\ ~Pending("suggest")
  /\ \E k \in 1..Len(messages) :
       /\ messages[k].content = "response"
       /\ messages[k].re > 0
       /\ IncludesMeditation(messages[k].arg)

\* a step in which a sound is selected
SoundSelected == meds' # meds

\* a step in which a track lookup resolves, found or failed
LookupSettled == meds' = meds /\ trackReqs' # trackReqs

\* C19: the step that selects a sound leaves the machine in MeditationActive
\* with the sound of the lookup it started as the selected sound, and the
\* step in which a lookup resolves, found or failed, changes neither
C19_SelectSoundCompletes ==
  [][/\ SoundSelected =>
          /\ currentState = MEDITATION_SELECTION
          /\ currentState' = MEDITATION_ACTIVE
          /\ \E r \in trackReqs' \ trackReqs : selectedSound' = r.sound
     /\ LookupSettled => UNCHANGED <<currentState, selectedSound>>]_vars

\* C19 witness: the lookup of the selected sound failed and the machine is
\* in MeditationActive with that sound selected
C19_Witness ==
  /\ stayKind = "failed"
  /\ currentState = MEDITATION_ACTIVE
  /\ selectedSound \in SoundChoices
  /\ trackReqs = {}

\* the MeditationActive screen renders the looping audio element of the
\* first loaded track
Playing == currentState = MEDITATION_ACTIVE /\ musicTracks # NULL

\* C20: while the machine stays in MeditationActive after the lookup of the
\* selected sound failed, the track list is empty and no track is played,
\* also when an earlier selection loaded tracks
C20_FailedLookupSilent == stayKind = "failed" => (musicTracks = NULL /\ ~Playing)

\* C21: a clip that is sounding is never replaced: while a clip sounds the
\* audio element keeps it until it ends, and no play request arrives on a
\* sounding clip
C21_ClipPlaysToCompletion ==
  [][/\ audioSrc # NoClip => audioSrc' \in {audioSrc, NoClip}
     /\ ~audioCut']_vars

\* a step in which an open channel is closed, but not by endSession
ChannelLost == wsOpen' # wsOpen /\ wsOpen' \subseteq wsOpen /\ ~EndSessionStep

\* a step that appends a system message
SystemMsgAppended ==
  /\ Len(messages') = Len(messages) + 1
  /\ messages'[Len(messages')].type = "system"

\* C22: a step in which the channel of the session is closed from outside,
\* while the session is active and End was not pressed, appends a system
\* message to the log
C22_ChannelLossSurfaced ==
  [][(/\ ChannelLost
      /\ currentSession # NULL /\ wsRef \in wsOpen /\ wsRef \notin wsOpen'
      /\ currentState \in ActiveStates /\ ~Pending("settle"))
     => SystemMsgAppended]_vars

\* C23: a step that opens a channel is the continuation of a startSession
\* whose request succeeded, and it opens the channel of the session it
\* created; nothing else opens a channel, in particular not after a close
C23_ChannelOpenedByStartOnly ==
  [][~(wsOpen' \subseteq wsOpen) =>
       /\ SessionCreated
       /\ \E r \in createReqs : createReqs' = createReqs \ {r} /\ currentSession' = r.id
       /\ wsOpen' = wsOpen \cup {currentSession'}]_vars

\* C23 witness: the channel of the second session was closed from outside
\* and the session goes on without a channel
C23_Witness ==
  /\ currentSession = 2 /\ wsRef = 2 /\ wsOpen = {}
  /\ currentState \in ActiveStates
  /\ ~Pending("settle") /\ armed # {}

\* a step in which a message of the channel takes effect: its audio starts
\* to play, or it moves the machine to MeditationSelection
PushEffect ==
  \/ audioSrc' = PushClip /\ <<audioSrc', audioCut'>> # <<audioSrc, audioCut>>
  \/ currentState' = MEDITATION_SELECTION /\ currentState # MEDITATION_SELECTION

\* C24: once endSession has closed the channel of the session, and until the
\* settle reset, no message of a channel starts audio or changes the state
C24_EventsAfterCloseDiscarded ==
  [][(/\ Pending("settle") /\ createReqs = {}
      /\ wsRef # NULL /\ wsRef \notin wsOpen)
     => ~PushEffect]_vars

\* the user message of turn n is in the log and has a word of stress
StressedTurn(n) ==
  \E k \in 1..Len(messages) :
    messages[k].type = "user" /\ messages[k].re = n /\ messages[k].arg = StressText

\* C25: every reply in the log that answers a user turn with a word of
\* stress recommends meditation
C25_StressRecommendsMeditation ==
  \A k \in 1..Len(messages) :
    (/\ messages[k].content = "response"
     /\ messages[k].re > 0
     /\ StressedTurn(messages[k].re))
    => IncludesMeditation(messages[k].arg)

\* a step in which an introduction request resolves and no clip starts
IntroFailed ==
  /\ \E p \in Personas : introReqs'[p] < introReqs[p]
  /\ UNCHANGED <<audioSrc, audioCut>>

\* the state of the component, without its requests in flight
AppState ==
  <<currentState, selectedPersona, sessionMinutes, currentSession, messages,
    remainingTime, selectedSound, musicTracks, isMeditating, lastCheckIn,
    timerRef, wsRef, listening, transcript, armed, wsOpen, timeouts>>

\* C26: the step in which an introduction request fails changes nothing of
\* the state of the component, persona index and machine state included,
\* and in VoiceSelection Select and both arrows are enabled, whatever
\* requests are pending or have failed
C26_IntroFailureHarmless ==
  /\ [][IntroFailed => UNCHANGED AppState]_vars
  /\ [](currentState = VOICE_SELECTION =>
          /\ ENABLED confirmPersona
          /\ \A direction \in Directions : ENABLED navigatePersona(direction))

\* C26 witness: two arrows were pressed, one request failed and one is
\* pending, the persona is the one two steps to the right and Select was
\* pressed
C26_Witness ==
  /\ Len(navTrail) = 2 /\ navTrail[1].from = 0 /\ navTrail[2].from = 1
  /\ navTrail[2].dir = "right"
  /\ IntroCount = 1
  /\ selectedPersona = 2
  /\ currentState = TIMER_SETUP

\* the edges of the documented state graph
DocumentedEdges ==
  {<<VOICE_SELECTION, TIMER_SETUP>>, <<TIMER_SETUP, ACTIVE_SESSION>>,
   <<ACTIVE_SESSION, MEDITATION_SELECTION>>, <<MEDITATION_SELECTION, ACTIVE_SESSION>>,
   <<MEDITATION_SELECTION, MEDITATION_ACTIVE>>, <<MEDITATION_ACTIVE, MEDITATION_SELECTION>>,
   <<MEDITATION_ACTIVE, ACTIVE_SESSION>>}
  \cup {<<a, VOICE_SELECTION>> : a \in ActiveStates}

\* C27: every step that changes the machine state follows an edge of the
\* documented graph
C27_DocumentedEdgesOnly ==
  [][currentState' # currentState =>
       <<currentState, currentState'>> \in DocumentedEdges]_vars

\* a step that appends the reply to user turn n
RepliedTo(n) ==
  /\ Len(messages') = Len(messages) + 1
  /\ messages'[Len(messages')].content = "response"
  /\ messages'[Len(messages')].re = n

\* C28: the step that appends the reply to a user turn, its request having
\* succeeded, hands the audio of that reply to the audio element
C28_ReplyIsSpoken ==
  [][\A n \in TurnIds \ {0} : RepliedTo(n) => audioSrc' = ReplyClip(n)]_vars

\* the log ms is kept as the beginning of the log ns
IsPrefix(ms, ns) == Len(ms) <= Len(ns) /\ SubSeq(ns, 1, Len(ms)) = ms

\* C29: while a session record exists, every step other than a settle reset
\* keeps the log as the beginning of the new log
C29_LogAppendOnly ==
  [][(currentSession # NULL /\ currentSession' # NULL)
     => IsPrefix(messages, messages')]_vars

\* message k of the log is the reply to a user turn
IsTurnReply(k) == messages[k].content = "response" /\ messages[k].re > 0

\* C30: the replies to user turns stand in the log in the order of their
\* turns
C30_RepliesInTurnOrder ==
  \A j, k \in 1..Len(messages) :
    (j < k /\ IsTurnReply(j) /\ IsTurnReply(k)) => messages[j].re < messages[k].re

\* the clips sounding: the one audio element plays at most one
ClipsPlaying == IF audioSrc = NoClip THEN 0 ELSE 1

\* C31: the clip buffers acquired and not released are at most one more
\* than the clips sounding
C31_ClipBuffersReleased == urls <= ClipsPlaying + 1

\* the closing messages in the log
ClosingCount == Cardinality({k \in 1..Len(messages) : messages[k] = ClosingMsg})

\* the settle resets scheduled and not yet run
SettleCount ==
  timeouts["settle"][0] + timeouts["settle"][1] + timeouts["settle"][2]
    + timeouts["settle"][3]

\* C32: in a session the log holds at most one closing message, at most one
\* settle reset is scheduled, and no reset is scheduled once the machine is
\* back in the setup screens
C32_EndOncePerSession ==
  /\ ClosingCount <= 1
  /\ SettleCount <= 1
  /\ currentState \in {VOICE_SELECTION, TIMER_SETUP} => SettleCount = 0

\* the reply messages and the user messages in the log
ReplyCount == Cardinality({k \in 1..Len(messages) : messages[k].content = "response"})
UserCount == Cardinality({k \in 1..Len(messages) : messages[k].type = "user"})

\* C33: the log never holds more replies than user messages, so before the
\* first user turn the greeting is its only therapist message
C33_RepliesAnswerTurns == ReplyCount <= UserCount

\* a step that sends an introduction request for persona p
IntroRequested(p) == introReqs'[p] > introReqs[p]

\* C34: the introduction request a navigation sends names the persona the
\* navigation arrives at
C34_IntroNamesNewPersona ==
  [][\A p \in Personas : IntroRequested(p) => p = selectedPersona']_vars

\* C35: in the three active states a session record exists; in the setup
\* screens no countdown is armed and the meditating flag is off
C35_StateMatchesSession ==
  /\ currentState \in ActiveStates => currentSession # NULL
  /\ currentState \in {VOICE_SELECTION, TIMER_SETUP} => (armed = {} /\ ~isMeditating)

\* a step in which the delayed transition of a reply fires, or a
\* meditation-suggested message of the channel is handled
SuggestionFires ==
  \/ suggestTimeout
  \/ \E w \in wsOpen : \E data \in WsPayloads :
       data.suggestion /\ handleWebSocketMessage(w, data)

\* C36: the delayed transition and the suggestion push move the machine only
\* out of ActiveSession: never out of MeditationActive, never while the
\* meditating flag is on
C36_SuggestionOnlyFromActive ==
  [][(SuggestionFires /\ currentState' # currentState)
       => (currentState = ACTIVE_SESSION /\ ~isMeditating)]_vars

\* the cleanup endSession of the panel leaves behind when it completes
PanelCleanedUp ==
  /\ ~isSessionActive'
  /\ ~breathingActive'
  /\ currentTrack' = NULL
  /\ panelWsRef' # NULL => sockets'[panelWsRef'] \in {"closing", "closed"}
  /\ ~panelListening'
  /\ panelSession' = NULL
  /\ panelMessages' = <<>>

\* C37: endSession of the panel, called in a session, completes its whole
\* cleanup whatever the state of the channel, and send is never called on a
\* channel that is not open
C37_PanelEndCleansUp ==
  [][/\ panelEndSession => PanelCleanedUp
     /\ lastSend' \in {"none", "open"}]_vars

\* C38: once endSession of the panel has cleared the log, the log stays
\* empty until startSession is called again
C38_ClearedLogStaysEmpty == logCleared => panelMessages = <<>>

\* the error messages of a log
PanelErrors(log) == Cardinality({k \in 1..Len(log) : log[k].type = "error"})

\* C39: the loading flag is set exactly while the createSession request of
\* the panel is pending; a rejected request leaves the session inactive,
\* opens no channel and appends exactly one error message; no request is
\* issued while the flag is set or a session is active
C39_LoadingGuardsStart ==
  [][/\ (sessionReq > 0) = isLoading
     /\ sessionReq' < sessionReq => ~isLoading'
     /\ panelCreateSessionFail =>
          /\ ~isSessionActive /\ ~isSessionActive'
          /\ sockets' = sockets /\ panelWsRef' = panelWsRef
          /\ Len(panelMessages') = Len(panelMessages) + 1
          /\ PanelErrors(panelMessages') = PanelErrors(panelMessages) + 1
     /\ (isLoading \/ isSessionActive) => sessionReq' <= sessionReq]_vars

\* a second start has been rejected: the flag is clear, the session inactive
\* and the log ends with the error message
C39_Witness ==
  /\ panelStarts = 2
  /\ sessionReq = 0 /\ ~isLoading /\ ~isSessionActive
  /\ panelMessages # <<>>
  /\ panelMessages[Len(panelMessages)] = StartFailedMsg

\* the phase that follows a phase in the breathing cycle
CycleNext(ph) ==
  IF ph = "inhale" THEN "hold" ELSE IF ph = "hold" THEN "exhale" ELSE "inhale"

\* C40: while the breathing exercise is active a phase changes only to the
\* next phase of the cycle inhale, hold, exhale, with the counter back at 0
\* and after exactly as many ticks as the pattern gives the phase, and the
\* counter never exceeds that length
C40_BreathingCycle ==
  [][(breathingActive /\ breathingActive') =>
       /\ count' <= patterns[breathingPattern'][phase']
       /\ phase' # phase =>
            /\ phase' = CycleNext(phase)
            /\ count' = 0
            /\ phaseTicks + 1 = patterns[breathingPattern][phase]]_vars

====
